---- MODULE Spec2Model ----
(***************************************************************************)
(* Model of services/python-ml/main.py: the FastAPI handlers of the       *)
(* Python ML service, the three module-level dictionaries they share      *)
(* (models_cache, analysis_results, training_jobs) and the background     *)
(* training tasks.                                                         *)
(*                                                                         *)
(* Every handler is an `async def` without an await between its first and *)
(* last statement (the WebSocket loop awaits only between messages), so   *)
(* each handler call and each background task is one atomic step of the   *)
(* event loop.  Steps of different requests interleave freely.            *)
(***************************************************************************)
EXTENDS Integers, Sequences, FiniteSets, TLC

\* ---------------------------------------------------------------- bounds
\* The wall clock is read in ticks 0..MaxClock; TicksPerSecond of them make
\* one second (datetime.now() is finer than int(time.time())).
MaxClock == 2
TicksPerSecond == 2
\* Number of POST /api/ml/train requests that are accepted in one run.
MaxTrain == 2
\* Number of client calls (requests, socket connects, messages and
\* disconnects) in one run; background tasks and clock ticks are not counted.
MaxRequests == 3
\* the longest label column handed to the trainer
MaxLabels == 11
\* the most branch nodes and the most functions of an analyzed source text
MaxBranches == 40
MaxFunctions == 2

VARIABLES
  clock,             \* the wall clock, in ticks
  models_cache,      \* main.py:83  job_id -> result of train_model
  analysis_results,  \* main.py:84  analysis_id -> stored analysis
  training_jobs,     \* main.py:85  job_id -> job record
  background_tasks,  \* the train_model_background calls scheduled so far
  ws_state,          \* the /ws/ml connection: "none", "open" or "closed"
  last,              \* the last call handled: handler, request, response
  requests           \* how many client calls were handled (bounds the run)

vars == <<clock, models_cache, analysis_results, training_jobs,
          background_tasks, ws_state, last, requests>>

stores == <<models_cache, analysis_results, training_jobs>>

\* ------------------------------------------------------------- helpers
\* One more client call is handled.
Count == requests < MaxRequests /\ requests' = requests + 1

Max(a, b) == IF a >= b THEN a ELSE b
Min(a, b) == IF a <= b THEN a ELSE b

Range(s) == {s[i] : i \in 1..Len(s)}

\* A Python dict as a function; d[k] = v adds or overwrites the key.
EmptyDict == <<>>
DictSet(d, k, v) == [x \in (DOMAIN d) \cup {k} |-> IF x = k THEN v ELSE d[x]]

\* int(time.time()): the clock truncated to whole seconds.
IntTime(t) == t \div TicksPerSecond
\* datetime.now().isoformat(): the clock at full resolution, as text.
IsoFormat(t) == <<"iso", t>>

\* Variant: the key is built from the clock at full resolution.
TrainingKeyFine(t) == <<"training", t>>

\* f"training_{int(time.time())}" and f"analysis_{int(time.time())}".
TrainingKey(t) == <<"training", IntTime(t)>>
AnalysisKey(t) == <<"analysis", IntTime(t)>>

\* ---------------------------------------------------- exceptions, catch
HTTPException(code, detail) ==
  [cls |-> "HTTPException", status_code |-> code, detail |-> detail]
PyError(cls, msg) == [cls |-> cls, msg |-> msg]

\* Classes derived from Exception; `except Exception` catches these.
ExceptionClasses ==
  {"HTTPException", "ValueError", "SyntaxError", "MemoryError",
   "RecursionError", "WebSocketDisconnect", "AttributeError"}
IsException(e) == e.cls \in ExceptionClasses

\* str(e)
Str(e) == [str |-> e]

\* A message text, with the values formatted into it.
Text(text) == [text |-> text]
TextOf(text, arg) == [text |-> text, arg |-> arg]

Raise(e) == [raised |-> TRUE, exc |-> e]
Return(v) == [raised |-> FALSE, value |-> v]

\* `except Exception as e: raise HTTPException(status_code=500, detail=str(e))`
BlanketCatch(out) ==
  IF out.raised /\ IsException(out.exc)
    THEN Raise(HTTPException(500, Str(out.exc)))
    ELSE out

\* FastAPI turns a returned value into a 200 and a raised HTTPException into
\* a response with the exception's status code and detail.
HttpResponse(out) ==
  IF out.raised
    THEN [status_code |-> out.exc.status_code, detail |-> out.exc.detail]
    ELSE [status_code |-> 200, body |-> out.value]

\* ------------------------------------------------------ request values
\* JSON values of a data row: a string or a number, tagged by its type.
StrV(n) == <<"str", n>>
NumV(n) == <<"num", n>>
IsStr(v) == v[1] = "str"

DataEmpty == <<>>
\* two rows, a numeric feature, two distinct string labels
DataBinary ==
  << [f |-> NumV(1), label |-> StrV(1)], [f |-> NumV(2), label |-> StrV(2)] >>
\* three rows, a string feature, three distinct numeric labels
DataMulti ==
  << [g |-> StrV(2), label |-> NumV(1)], [g |-> StrV(1), label |-> NumV(2)],
     [g |-> StrV(2), label |-> NumV(3)] >>
Datasets == {DataEmpty, DataBinary, DataMulti}

\* MLTrainingRequest (main.py:63-67)
MLTrainingRequest ==
  [data : {DataEmpty, DataBinary}, target_column : {"label", "missing"},
   model_type : {"auto"}]

\* pd.DataFrame(data).columns
Columns(data) == UNION {DOMAIN data[i] : i \in 1..Len(data)}

\* df[col] as the sequence of the column's values
Column(data, col) == [i \in 1..Len(data) |-> data[i][col]]

\* np.unique(y)
Unique(y) == Range(y)

\* LabelEncoder().fit_transform: each value becomes its rank among the
\* sorted distinct values of the column.
LabelEncode(values) ==
  [i \in 1..Len(values) |->
     NumV(Cardinality({u \in Range(values) : u[2] < values[i][2]}))]

\* X = df.drop(columns=[target]) with every object column label-encoded
\* (main.py:452-459); y = df[target].
PrepareX(data, target) ==
  LET cols == Columns(data) \ {target}
      enc(c) == IF \E i \in 1..Len(data) : IsStr(data[i][c])
                  THEN LabelEncode(Column(data, c))
                  ELSE Column(data, c)
  IN [i \in 1..Len(data) |-> [c \in cols |-> enc(c)[i]]]
PrepareY(data, target) == Column(data, target)

\* ------------------------------------------------------------ MLService
\* MLService.auto_detect_problem_type (main.py:94-98)
auto_detect_problem_type(y) ==
  IF IsStr(y[1]) \/ Cardinality(Unique(y)) < 10
    THEN "classification"
    ELSE "regression"

\* Variant: a requested model_type other than 'auto' and 'classification'
\* is fitted with the linear regressor.
train_model_linear(X, y, model_type) ==
  LET mt == IF model_type = "auto" THEN auto_detect_problem_type(y)
            ELSE model_type
      model == IF mt = "classification"
                 THEN IF Cardinality(Unique(y)) = 2
                        THEN "LogisticRegression"
                        ELSE "RandomForestClassifier"
               ELSE IF model_type = "auto"
                 THEN "RandomForestRegressor"
                 ELSE "LinearRegression"
      metrics == IF mt = "classification"
                   THEN {"accuracy", "classification_report"}
                   ELSE {"mse", "rmse"}
  IN [model |-> model, scaler |-> "StandardScaler", model_type |-> mt,
      metrics |-> metrics,
      feature_importance |-> (model \in {"RandomForestClassifier",
                                         "RandomForestRegressor"})]

\* MLService.train_model (main.py:100-149) when no library call raises:
\* the estimator chosen and the shape of the result.
train_model(X, y, model_type) ==
  LET mt == IF model_type = "auto" THEN auto_detect_problem_type(y)
            ELSE model_type
      model == IF mt = "classification"
                 THEN IF Cardinality(Unique(y)) = 2
                        THEN "LogisticRegression"
                        ELSE "RandomForestClassifier"
                 ELSE "RandomForestRegressor"
      metrics == IF mt = "classification"
                   THEN {"accuracy", "classification_report"}
                   ELSE {"mse", "rmse"}
  IN [model |-> model, scaler |-> "StandardScaler", model_type |-> mt,
      metrics |-> metrics,
      feature_importance |-> (model # "LogisticRegression")]

\* ------------------------------------------- POST /api/ml/train handler
\* Variant: the 'training' record is written as soon as the data is known
\* to be non-empty, before the target column is looked up.
TrainBodyEarlyRecord(request, t, prep, jobs, tasks) ==
  LET job_id == TrainingKey(t)
      jobs1 == DictSet(jobs, job_id,
                 [status |-> "training", start_time |-> IsoFormat(t)])
  IN IF request.data = <<>>
       THEN [out |-> Raise(HTTPException(400, Text("No data provided"))),
             jobs |-> jobs, tasks |-> tasks]
     ELSE IF prep = "DataFrame"
       THEN [out |-> Raise(PyError("MemoryError", "")),
             jobs |-> jobs1, tasks |-> tasks]
     ELSE IF request.target_column \notin Columns(request.data)
       THEN [out |-> Raise(HTTPException(400,
                       TextOf("Target column not found",
                              request.target_column))),
             jobs |-> jobs1, tasks |-> tasks]
     ELSE IF prep = "LabelEncoder"
       THEN [out |-> Raise(PyError("ValueError", "")),
             jobs |-> jobs1, tasks |-> tasks]
     ELSE [out |-> Return([job_id |-> job_id, status |-> "training_started",
                           message |-> "Model training started in background"]),
           jobs |-> jobs1,
           tasks |-> Append(tasks,
                       [job_id |-> job_id,
                        X |-> PrepareX(request.data, request.target_column),
                        y |-> PrepareY(request.data, request.target_column),
                        model_type |-> request.model_type,
                        state |-> "scheduled", read_at |-> t])]

\* The body of train_ml_model inside its try (main.py:442-471), statement
\* by statement: the outcome (value returned or exception raised) and the
\* two collections as the body leaves them.  `prep` names the library call
\* of lines 446-459 that raises: "DataFrame" (line 446), "LabelEncoder"
\* (lines 456-459) or "ok" for none.  A scheduled task is the argument
\* list of train_model_background with its run state ("scheduled", then
\* "returned" or "raised") and the tick at which the handler read the clock.
TrainBody(request, t, prep, jobs, tasks) ==
  IF request.data = <<>>
    THEN [out |-> Raise(HTTPException(400, Text("No data provided"))),
          jobs |-> jobs, tasks |-> tasks]
  ELSE IF prep = "DataFrame"
    THEN [out |-> Raise(PyError("MemoryError", "")),
          jobs |-> jobs, tasks |-> tasks]
  ELSE IF request.target_column \notin Columns(request.data)
    THEN [out |-> Raise(HTTPException(400,
                    TextOf("Target column not found", request.target_column))),
          jobs |-> jobs, tasks |-> tasks]
  ELSE IF prep = "LabelEncoder"
    THEN [out |-> Raise(PyError("ValueError", "")),
          jobs |-> jobs, tasks |-> tasks]
  ELSE
    LET job_id == TrainingKey(t)
        X == PrepareX(request.data, request.target_column)
        y == PrepareY(request.data, request.target_column)
    IN [out |-> Return([job_id |-> job_id, status |-> "training_started",
                        message |-> "Model training started in background"]),
        jobs |-> DictSet(jobs, job_id,
                   [status |-> "training", start_time |-> IsoFormat(t)]),
        tasks |-> Append(tasks,
                   [job_id |-> job_id, X |-> X, y |-> y,
                    model_type |-> request.model_type, state |-> "scheduled",
                    read_at |-> t])]

PrepOutcomes == {"ok", "DataFrame", "LabelEncoder"}

\* train_ml_model (main.py:438-475): the body under the blanket catch.
train_ml_model(request, prep) ==
  /\ Count
  /\ LET r == TrainBody(request, clock, prep, training_jobs, background_tasks)
     IN /\ Len(r.tasks) <= MaxTrain
        /\ training_jobs' = r.jobs
        /\ background_tasks' = r.tasks
        /\ last' = [handler |-> "train_ml_model", request |-> request,
                    response |-> HttpResponse(BlanketCatch(r.out))]
  /\ UNCHANGED <<clock, models_cache, analysis_results, ws_state>>

\* ------------------------------------------------ background training
\* del d[k]
DictDel(d, k) == [x \in (DOMAIN d) \ {k} |-> d[x]]

\* Variant: the exception of train_model is not handled, the record stays
\* as it was.
BackgroundBodyNoExcept(task, t, raises, jobs, cache) ==
  IF raises
    THEN [jobs |-> jobs, cache |-> cache]
    ELSE
      LET result == train_model(task.X, task.y, task.model_type)
      IN [jobs |-> DictSet(jobs, task.job_id,
                     [status |-> "completed",
                      start_time |-> jobs[task.job_id].start_time,
                      end_time |-> IsoFormat(t),
                      metrics |-> result.metrics,
                      model_type |-> result.model_type]),
          cache |-> DictSet(cache, task.job_id, result)]

\* Variant: a failed training drops the model cached under its job_id.
BackgroundBodyEvict(task, t, raises, jobs, cache) ==
  IF raises
    THEN [jobs |-> DictSet(jobs, task.job_id,
                     [status |-> "failed",
                      start_time |-> jobs[task.job_id].start_time,
                      end_time |-> IsoFormat(t),
                      error |-> Str(PyError("ValueError", ""))]),
          cache |-> DictDel(cache, task.job_id)]
    ELSE
      LET result == train_model(task.X, task.y, task.model_type)
      IN [jobs |-> DictSet(jobs, task.job_id,
                     [status |-> "completed",
                      start_time |-> jobs[task.job_id].start_time,
                      end_time |-> IsoFormat(t),
                      metrics |-> result.metrics,
                      model_type |-> result.model_type]),
          cache |-> DictSet(cache, task.job_id, result)]

\* Variant: the record is completed but the result is not cached.
BackgroundBodyNoCache(task, t, raises, jobs, cache) ==
  IF raises
    THEN [jobs |-> DictSet(jobs, task.job_id,
                     [status |-> "failed",
                      start_time |-> jobs[task.job_id].start_time,
                      end_time |-> IsoFormat(t),
                      error |-> Str(PyError("ValueError", ""))]),
          cache |-> cache]
    ELSE
      LET result == train_model(task.X, task.y, task.model_type)
      IN [jobs |-> DictSet(jobs, task.job_id,
                     [status |-> "completed",
                      start_time |-> jobs[task.job_id].start_time,
                      end_time |-> IsoFormat(t),
                      metrics |-> result.metrics,
                      model_type |-> result.model_type]),
          cache |-> cache]

\* The body of train_model_background (main.py:477-501) for a scheduled
\* task; `raises` is whether ml_service.train_model raises.
BackgroundBody(task, t, raises, jobs, cache) ==
  IF raises
    THEN [jobs |-> DictSet(jobs, task.job_id,
                     [status |-> "failed",
                      start_time |-> jobs[task.job_id].start_time,
                      end_time |-> IsoFormat(t),
                      error |-> Str(PyError("ValueError", ""))]),
          cache |-> cache]
    ELSE
      LET result == train_model(task.X, task.y, task.model_type)
          cache1 == DictSet(cache, task.job_id, result)
      IN [jobs |-> DictSet(jobs, task.job_id,
                     [status |-> "completed",
                      start_time |-> jobs[task.job_id].start_time,
                      end_time |-> IsoFormat(t),
                      metrics |-> result.metrics,
                      model_type |-> result.model_type]),
          cache |-> cache1]

\* Variant: a task that raised is run again (a retry).
train_model_background_retry(i, raises) ==
  /\ i \in 1..Len(background_tasks)
  /\ background_tasks[i].state \in {"scheduled", "raised"}
  /\ LET r == BackgroundBody(background_tasks[i], clock, raises,
                             training_jobs, models_cache)
     IN /\ training_jobs' = r.jobs
        /\ models_cache' = r.cache
  /\ background_tasks' =
       [background_tasks EXCEPT ![i].state =
          IF raises THEN "raised" ELSE "returned"]
  /\ UNCHANGED <<clock, analysis_results, ws_state, last, requests>>

\* train_model_background (main.py:477-501), run once for a scheduled task.
train_model_background(i, raises) ==
  /\ i \in 1..Len(background_tasks)
  /\ background_tasks[i].state = "scheduled"
  /\ LET r == BackgroundBody(background_tasks[i], clock, raises,
                             training_jobs, models_cache)
     IN /\ training_jobs' = r.jobs
        /\ models_cache' = r.cache
  /\ background_tasks' =
       [background_tasks EXCEPT ![i].state =
          IF raises THEN "raised" ELSE "returned"]
  /\ UNCHANGED <<clock, analysis_results, ws_state, last, requests>>

\* The wall clock advances.
Tick ==
  /\ clock < MaxClock
  /\ clock' = clock + 1
  /\ UNCHANGED <<models_cache, analysis_results, training_jobs,
                 background_tasks, ws_state, last, requests>>

\* ------------------------------------------------------- CodeAnalyzer
\* A source text, by what the analyzer reads from it: its length and line
\* count, whether ast.parse accepts it, the branch nodes (If, While, For,
\* Try, Lambda) and loops of its tree, the docstring flag of each function,
\* its classes and imports, and the dangerous patterns the regular
\* expressions find.
CodeEmpty ==
  [length |-> 0, lines |-> 0, parse |-> "ok", branches |-> 0, loops |-> FALSE,
   functions |-> <<>>, classes |-> 0, imports |-> 0, patterns |-> {}]
CodePlain ==
  [length |-> 5, lines |-> 1, parse |-> "ok", branches |-> 0, loops |-> FALSE,
   functions |-> <<>>, classes |-> 0, imports |-> 1, patterns |-> {}]
CodeRisky ==
  [length |-> 9, lines |-> 4, parse |-> "ok", branches |-> 12, loops |-> TRUE,
   functions |-> <<TRUE, FALSE>>, classes |-> 1, imports |-> 0,
   patterns |-> {"exec", "eval"}]
CodeBroken ==
  [length |-> 2, lines |-> 1, parse |-> "SyntaxError", branches |-> 0,
   loops |-> FALSE, functions |-> <<>>, classes |-> 0, imports |-> 0,
   patterns |-> {}]
\* nested so deeply that ast.parse raises RecursionError
CodeDeep ==
  [length |-> 7, lines |-> 1, parse |-> "RecursionError", branches |-> 0,
   loops |-> FALSE, functions |-> <<>>, classes |-> 0, imports |-> 0,
   patterns |-> {}]
Codes == {CodeEmpty, CodePlain, CodeRisky, CodeBroken, CodeDeep}

\* CodeAnalyzer._calculate_complexity (main.py:188-196)
calculate_complexity(code) == 1 + code.branches

\* Variant: the documentation bonus is added after the clamp.
calculate_quality_score_late_bonus(analysis) ==
  LET n == Len(analysis.functions)
      den == IF n = 0 THEN 1 ELSE n
      documented == Cardinality({i \in 1..n : analysis.functions[i]})
      s1 == IF analysis.complexity > 10
              THEN 100 - (analysis.complexity - 10) * 2
              ELSE 100
      s2 == s1 - Cardinality(analysis.security_issues) * 10
  IN <<Max(0, Min(100, s2)) * den + (IF n > 0 THEN documented * 10 ELSE 0),
       den>>

\* CodeAnalyzer._calculate_quality_score (main.py:280-297); the score is a
\* fraction <<numerator, denominator>> because of the documentation ratio.
calculate_quality_score(analysis) ==
  LET n == Len(analysis.functions)
      den == IF n = 0 THEN 1 ELSE n
      documented == Cardinality({i \in 1..n : analysis.functions[i]})
      s1 == IF analysis.complexity > 10
              THEN 100 - (analysis.complexity - 10) * 2
              ELSE 100
      s2 == s1 - Cardinality(analysis.security_issues) * 10
      num == s2 * den + (IF n > 0 THEN documented * 10 ELSE 0)
  IN <<Max(0, Min(100 * den, num)), den>>

\* CodeAnalyzer.analyze_python_code (main.py:160-186)
analyze_python_code(code) ==
  IF code.parse = "SyntaxError"
    THEN Return([error |-> "Syntax Error", details |-> Str(PyError("SyntaxError", "")),
                 valid |-> FALSE])
  ELSE IF code.parse # "ok"
    THEN Raise(PyError(code.parse, ""))
  ELSE
    LET analysis ==
          [valid |-> TRUE, lines_of_code |-> code.lines,
           complexity |-> calculate_complexity(code),
           functions |-> code.functions, classes |-> code.classes,
           imports |-> code.imports, security_issues |-> code.patterns,
           performance_suggestions |-> code.loops,
           code_quality_score |-> <<0, 1>>]
    IN Return([analysis EXCEPT
                 !.code_quality_score = calculate_quality_score(analysis)])

\* str.lower() on the language names that are sent
Lower(s) ==
  CASE s = "Python" -> "python"
    [] s = "PYTHON" -> "python"
    [] OTHER -> s

\* CodeAnalysisRequest (main.py:58-61)
CodeAnalysisRequest ==
  [code : {CodePlain, CodeBroken, CodeDeep}, language : {"python"}]
    \cup [code : {CodePlain}, language : {"Python", "javascript"}]

\* ---------------------------------------- POST /api/code/analyze handler
\* Variant: only the analysis of code that parses is stored.
AnalyzeBodyValidOnly(request, t, results) ==
  IF Lower(request.language) # "python"
    THEN [out |-> Raise(HTTPException(400,
                    Text("Only Python analysis supported currently"))),
          results |-> results]
  ELSE
    LET a == analyze_python_code(request.code)
        analysis_id == AnalysisKey(t)
    IN IF a.raised
         THEN [out |-> a, results |-> results]
         ELSE [out |-> Return([analysis_id |-> analysis_id,
                               analysis |-> a.value,
                               timestamp |-> IsoFormat(t)]),
               results |-> IF a.value.valid
                             THEN DictSet(results, analysis_id,
                                    [analysis |-> a.value,
                                     timestamp |-> IsoFormat(t),
                                     code_length |-> request.code.length])
                             ELSE results]

\* Variant: an analysis already stored under the id is returned instead of
\* a new one.
AnalyzeBodyCached(request, t, results) ==
  IF Lower(request.language) # "python"
    THEN [out |-> Raise(HTTPException(400,
                    Text("Only Python analysis supported currently"))),
          results |-> results]
  ELSE IF AnalysisKey(t) \in DOMAIN results
    THEN [out |-> Return([analysis_id |-> AnalysisKey(t),
                          analysis |-> results[AnalysisKey(t)].analysis,
                          timestamp |-> IsoFormat(t)]),
          results |-> results]
  ELSE
    LET a == analyze_python_code(request.code)
        analysis_id == AnalysisKey(t)
    IN IF a.raised
         THEN [out |-> a, results |-> results]
         ELSE [out |-> Return([analysis_id |-> analysis_id,
                               analysis |-> a.value,
                               timestamp |-> IsoFormat(t)]),
               results |-> DictSet(results, analysis_id,
                             [analysis |-> a.value,
                              timestamp |-> IsoFormat(t),
                              code_length |-> request.code.length])]

\* The body of analyze_code inside its try (main.py:415-432).
AnalyzeBody(request, t, results) ==
  IF Lower(request.language) # "python"
    THEN [out |-> Raise(HTTPException(400,
                    Text("Only Python analysis supported currently"))),
          results |-> results]
  ELSE
    LET a == analyze_python_code(request.code)
        analysis_id == AnalysisKey(t)
    IN IF a.raised
         THEN [out |-> a, results |-> results]
         ELSE [out |-> Return([analysis_id |-> analysis_id,
                               analysis |-> a.value,
                               timestamp |-> IsoFormat(t)]),
               results |-> DictSet(results, analysis_id,
                             [analysis |-> a.value,
                              timestamp |-> IsoFormat(t),
                              code_length |-> request.code.length])]

\* analyze_code (main.py:411-436)
analyze_code(request) ==
  /\ Count
  /\ LET r == AnalyzeBody(request, clock, analysis_results)
     IN /\ analysis_results' = r.results
        /\ last' = [handler |-> "analyze_code", request |-> request,
                    response |-> HttpResponse(BlanketCatch(r.out))]
  /\ UNCHANGED <<clock, models_cache, training_jobs, background_tasks,
                 ws_state>>

\* ------------------------------------ GET /api/ml/training/{job_id}
\* The job ids a client asks for: every key the service can build, and one
\* it never builds.
MaxSecond == IntTime(MaxClock)
JobIds == {<<"training", s>> : s \in 0..MaxSecond} \cup {<<"analysis", 0>>}

\* Variant: a job without a record is answered with an empty record.
StatusBodyNo404(job_id, jobs) ==
  IF job_id \notin DOMAIN jobs
    THEN Return([status |-> "unknown"])
    ELSE Return(jobs[job_id])

\* get_training_status (main.py:503-509); it has no blanket catch.
StatusBody(job_id, jobs) ==
  IF job_id \notin DOMAIN jobs
    THEN Raise(HTTPException(404, Text("Training job not found")))
    ELSE Return(jobs[job_id])

get_training_status(job_id) ==
  /\ Count
  /\ last' = [handler |-> "get_training_status",
              request |-> [job_id |-> job_id],
              response |-> HttpResponse(StatusBody(job_id, training_jobs))]
  /\ UNCHANGED <<clock, models_cache, analysis_results, training_jobs,
                 background_tasks, ws_state>>

\* ------------------------------------------------------- GET /health
\* health_check (main.py:399-409)
HealthBody(t, cache) ==
  Return([status |-> "healthy", service |-> "python-ml",
          timestamp |-> IsoFormat(t), version |-> "1.0.0",
          active_models |-> Cardinality(DOMAIN cache),
          memory_usage |-> "N/A"])

health_check ==
  /\ Count
  /\ last' = [handler |-> "health_check", request |-> [method |-> "GET"],
              response |-> HttpResponse(HealthBody(clock, models_cache))]
  /\ UNCHANGED <<clock, models_cache, analysis_results, training_jobs,
                 background_tasks, ws_state>>

\* ------------------------------------------ POST /api/text/analyze
\* A text, by what the handler reads from it: the sign of TextBlob's
\* polarity and the number of pieces text.split('.') yields.
Texts == {[polarity |-> 1, pieces |-> 3]}

\* TextAnalysisRequest (main.py:69-71)
TextAnalysisRequest ==
  [text : Texts, analysis_type : {"sentiment", "all"}]

\* The body of analyze_text inside its try (main.py:515-543).
TextBody(request) ==
  LET r0 == EmptyDict
      r1 == IF request.analysis_type \in {"sentiment", "all"}
              THEN DictSet(r0, "sentiment",
                     IF request.text.polarity > 0 THEN "positive"
                     ELSE IF request.text.polarity < 0 THEN "negative"
                     ELSE "neutral")
              ELSE r0
      r2 == IF request.analysis_type \in {"keywords", "all"}
              THEN DictSet(r1, "keywords", "top10")
              ELSE r1
      r3 == IF request.analysis_type \in {"summary", "all"}
              THEN DictSet(r2, "summary",
                     IF request.text.pieces > 2 THEN "first.last."
                     ELSE "text")
              ELSE r2
  IN Return(r3)

analyze_text(request) ==
  /\ Count
  /\ last' = [handler |-> "analyze_text", request |-> request,
              response |-> HttpResponse(BlanketCatch(TextBody(request)))]
  /\ UNCHANGED <<clock, models_cache, analysis_results, training_jobs,
                 background_tasks, ws_state>>

\* ------------------------------------------ POST /api/data/process
\* DataProcessingRequest (main.py:73-75)
DataProcessingRequest ==
  [data : {DataMulti}, operations : {<<"transform", "analyze">>}]

\* DataProcessor._transform_data (main.py:334-345)
transform_data(data) == PrepareX(data, "")

\* DataProcessor.process_data (main.py:305-321); `raises` is whether a
\* pandas call in it raises.
process_data_body(request, raises) ==
  IF raises THEN Raise(PyError("ValueError", ""))
  ELSE
    LET ops == Range(request.operations)
        df == IF "transform" \in ops THEN transform_data(request.data)
              ELSE request.data
        shape(d) == <<Len(d), Cardinality(Columns(d))>>
        r0 == [original_shape |-> shape(request.data),
               processed_shape |-> shape(df), processed_data |-> df]
    IN Return(IF "analyze" \in ops
                THEN DictSet(r0, "analysis", [shape |-> shape(df)])
                ELSE r0)

\* process_data (main.py:549-558)
process_data(request, raises) ==
  /\ Count
  /\ last' = [handler |-> "process_data", request |-> request,
              response |->
                HttpResponse(BlanketCatch(process_data_body(request, raises)))]
  /\ UNCHANGED <<clock, models_cache, analysis_results, training_jobs,
                 background_tasks, ws_state>>

\* ------------------------------------------ POST /api/ai/inference
\* AIModelRequest (main.py:77-80)
AIModelRequest ==
  [model_type : {"code_completion", "chat"}]

\* The body of ai_inference inside its try (main.py:567-589).
InferenceBody(request, t) ==
  LET r0 == [model_type |-> request.model_type, timestamp |-> IsoFormat(t),
             result |-> "Inference completed", confidence |-> "0.85",
             processing_time_ms |-> 150]
      r1 == IF request.model_type = "code_completion"
              THEN DictSet(r0, "suggestions", 3)
            ELSE IF request.model_type = "code_optimization"
              THEN DictSet(r0, "optimizations", 3)
            ELSE r0
  IN Return(r1)

ai_inference(request) ==
  /\ Count
  /\ last' = [handler |-> "ai_inference", request |-> request,
              response |->
                HttpResponse(BlanketCatch(InferenceBody(request, clock)))]
  /\ UNCHANGED <<clock, models_cache, analysis_results, training_jobs,
                 background_tasks, ws_state>>

\* ------------------------------------------------------ WS /ws/ml
\* A JSON message received on the socket: an object with some fields, or
\* a value that is no object.
Get(d, k, default) == IF k \in DOMAIN d THEN d[k] ELSE default

\* A received value that is no JSON object (an array, a string, a number).
NonObject == [json |-> "array"]
IsObject(data) == "json" \notin DOMAIN data

\* A job_id that is a JSON array or object: a value Python cannot hash.
UnhashableId == <<"list", 0>>
Hashable(v) == v[1] # "list"

WsMessages ==
  {[type |-> "training_status", job_id |-> j] :
      j \in JobIds \cup {UnhashableId}}
    \cup {[type |-> "quick_analysis", code |-> c] :
             c \in {CodeEmpty, CodePlain, CodeDeep}}
    \cup {[type |-> "quick_analysis"], [type |-> "ping"], NonObject}

\* One turn of the loop of ml_websocket raises outside the inner try
\* (main.py:602-611): data.get on a value that is no dict is an
\* AttributeError, and `job_id in training_jobs` hashes job_id, a TypeError
\* for a list or a dict.
WsRaises(data) ==
  \/ ~IsObject(data)
  \/ /\ Get(data, "type", "None") = "training_status"
     /\ ~Hashable(Get(data, "job_id", <<"None">>))

\* One turn of the loop of ml_websocket (main.py:602-627) for a received
\* value: the messages it sends.
WsReply(data, jobs) ==
  IF WsRaises(data)
    THEN << >>
  ELSE IF Get(data, "type", "None") = "training_status"
    THEN LET job_id == Get(data, "job_id", <<"None">>)
         IN IF job_id \in DOMAIN jobs
              THEN << [type |-> "training_status", job_id |-> job_id,
                       status |-> jobs[job_id]] >>
              ELSE << >>
  ELSE IF Get(data, "type", "None") = "quick_analysis"
    THEN LET code == Get(data, "code", CodeEmpty)
         IN IF code.length > 0
              THEN LET a == analyze_python_code(code)
                   IN IF a.raised /\ IsException(a.exc)
                        THEN << [type |-> "error", message |-> Str(a.exc)] >>
                        ELSE << [type |-> "analysis_result",
                                 analysis |-> a.value] >>
              ELSE << >>
  ELSE << >>

\* await websocket.accept() (main.py:598)
ws_accept ==
  /\ Count
  /\ ws_state # "open"
  /\ ws_state' = "open"
  /\ last' = [handler |-> "ml_websocket.accept",
              request |-> [connect |-> TRUE], response |-> [sent |-> << >>]]
  /\ UNCHANGED <<clock, models_cache, analysis_results, training_jobs,
                 background_tasks>>

\* A message arrives and one turn of the loop handles it; when the turn
\* raises, the outer except logs and the finally closes the socket
\* (main.py:629-632).
ws_message(data) ==
  /\ Count
  /\ ws_state = "open"
  /\ ws_state' = IF WsRaises(data) THEN "closed" ELSE ws_state
  /\ last' = [handler |-> "ml_websocket", request |-> data,
              response |-> [sent |-> WsReply(data, training_jobs)]]
  /\ UNCHANGED <<clock, models_cache, analysis_results, training_jobs,
                 background_tasks>>

\* receive_json raises (the client went away, or sent no JSON): the outer
\* except logs and the finally closes (main.py:629-632).
ws_disconnect ==
  /\ Count
  /\ ws_state = "open"
  /\ ws_state' = "closed"
  /\ last' = [handler |-> "ml_websocket.close",
              request |-> [disconnect |-> TRUE], response |-> [sent |-> << >>]]
  /\ UNCHANGED <<clock, models_cache, analysis_results, training_jobs,
                 background_tasks>>

\* ------------------------------------------------------ specification
Init ==
  /\ clock = 0
  /\ models_cache = EmptyDict
  /\ analysis_results = EmptyDict
  /\ training_jobs = EmptyDict
  /\ background_tasks = << >>
  /\ ws_state = "none"
  /\ last = [handler |-> "none", request |-> [none |-> TRUE],
             response |-> [none |-> TRUE]]
  /\ requests = 0

Next ==
  \/ Tick
  \/ \E request \in MLTrainingRequest, prep \in PrepOutcomes :
       train_ml_model(request, prep)
  \/ \E i \in 1..MaxTrain, raises \in BOOLEAN :
       train_model_background(i, raises)
  \/ \E request \in CodeAnalysisRequest : analyze_code(request)
  \/ \E job_id \in JobIds : get_training_status(job_id)
  \/ health_check
  \/ \E request \in TextAnalysisRequest : analyze_text(request)
  \/ \E request \in DataProcessingRequest, raises \in BOOLEAN :
       process_data(request, raises)
  \/ \E request \in AIModelRequest : ai_inference(request)
  \/ ws_accept
  \/ \E data \in WsMessages : ws_message(data)
  \/ ws_disconnect

Spec == Init /\ [][Next]_vars

\* The training jobs alone: the train and status handlers, the background
\* tasks and the clock.  The other handlers neither read nor write
\* background_tasks, and write neither training_jobs nor models_cache.
TrainNext ==
  \/ Tick
  \/ \E request \in MLTrainingRequest, prep \in PrepOutcomes :
       train_ml_model(request, prep)
  \/ \E i \in 1..MaxTrain, raises \in BOOLEAN :
       train_model_background(i, raises)
  \/ \E job_id \in JobIds : get_training_status(job_id)

\* Starlette runs the background task of a request once its response is
\* sent: every scheduled task is eventually run.
LiveSpec ==
  /\ Init
  /\ [][TrainNext]_vars
  /\ \A i \in 1..MaxTrain :
       WF_vars(\E raises \in BOOLEAN : train_model_background(i, raises))

\* ------------------------------------------------- MLService alone
\* A label column of n values of one JSON type, d of them distinct.
LabelColumn(n, d, str) ==
  [i \in 1..n |-> IF str THEN StrV(((i - 1) % d) + 1)
                         ELSE NumV(((i - 1) % d) + 1)]

\* The model_type strings a request may carry (main.py:67): the default,
\* the two the trainer names, and one it does not know.
ModelTypes == {"auto", "classification", "regression", "linear"}

\* The arguments of ml_service.train_model (main.py:480): the feature
\* rows, the label column and the requested model_type.
TrainerInputs ==
  {[X |-> [i \in 1..n |-> [f |-> NumV(i)]],
    y |-> LabelColumn(n, d, str), model_type |-> mt] :
      n \in 1..MaxLabels, d \in 1..MaxLabels, str \in BOOLEAN,
      mt \in ModelTypes}

TrainerInit ==
  /\ clock = 0
  /\ models_cache = EmptyDict
  /\ analysis_results = EmptyDict
  /\ training_jobs = EmptyDict
  /\ background_tasks = << >>
  /\ ws_state = "none"
  /\ requests = 0
  /\ \E input \in TrainerInputs :
       last = [handler |-> "none", request |-> input,
               response |-> [none |-> TRUE]]

\* ml_service.train_model(X, y, model_type) (main.py:480) returns.
ml_service_train_model ==
  /\ last.handler = "none"
  /\ last' = [last EXCEPT
                !.handler = "train_model",
                !.response = train_model(last.request.X, last.request.y,
                                         last.request.model_type)]
  /\ UNCHANGED <<clock, models_cache, analysis_results, training_jobs,
                 background_tasks, ws_state, requests>>

TrainerSpec == TrainerInit /\ [][ml_service_train_model]_vars

\* ----------------------------------------------- CodeAnalyzer alone
\* The four dangerous patterns of _check_security_issues (main.py:246-251)
DangerousPatterns == {"exec", "eval", "__import__", "pickle"}

\* The docstring flags of up to MaxFunctions functions
FunctionLists == UNION {[1..n -> BOOLEAN] : n \in 0..MaxFunctions}

\* Source texts handed to code_analyzer.analyze_python_code: those that
\* parse, by their branch nodes, functions and dangerous patterns, and one
\* that does not.
AnalyzerInputs ==
  {[length |-> 9, lines |-> 4, parse |-> "ok", branches |-> b,
    loops |-> FALSE, functions |-> f, classes |-> 0, imports |-> 0,
    patterns |-> ps] :
      b \in 0..MaxBranches, f \in FunctionLists,
      ps \in SUBSET DangerousPatterns}
    \cup {CodeBroken}

AnalyzerInit ==
  /\ clock = 0
  /\ models_cache = EmptyDict
  /\ analysis_results = EmptyDict
  /\ training_jobs = EmptyDict
  /\ background_tasks = << >>
  /\ ws_state = "none"
  /\ requests = 0
  /\ \E code \in AnalyzerInputs :
       last = [handler |-> "none", request |-> [code |-> code],
               response |-> [none |-> TRUE]]

\* code_analyzer.analyze_python_code(code) (main.py:418, 618) returns.
code_analyzer_analyze_python_code ==
  /\ last.handler = "none"
  /\ last' = [last EXCEPT
                !.handler = "analyze_python_code",
                !.response = analyze_python_code(last.request.code)]
  /\ UNCHANGED <<clock, models_cache, analysis_results, training_jobs,
                 background_tasks, ws_state, requests>>

AnalyzerSpec == AnalyzerInit /\ [][code_analyzer_analyze_python_code]_vars

\* =================================================================
\* Properties
\* =================================================================
\* What the steps of a run look like from the state: a client call is a
\* step that raises `requests`, and it leaves its handler's name in `last`.
Called(handler) == requests' = requests + 1 /\ last'.handler = handler

Terminal == {"completed", "failed"}
StatusOf(jobs, j) == jobs[j].status
TasksOf(tasks, j) == {i \in 1..Len(tasks) : tasks[i].job_id = j}
Finished(task) == task.state \in {"returned", "raised"}

\* ------------------------------------------------------------------ C1
\* C1: a train request with empty data or with a target_column that is no
\* column of the data, and an analyze request for a language other than
\* python, are answered with status 400.
C1_Explicit400 ==
  /\ (last.handler = "train_ml_model"
        /\ (last.request.data = <<>>
              \/ last.request.target_column \notin Columns(last.request.data)))
       => last.response.status_code = 400
  /\ (last.handler = "analyze_code"
        /\ Lower(last.request.language) # "python")
       => last.response.status_code = 400

\* ------------------------------------------------------------------ C2
\* C2 as stated: a record that has reached 'completed' or 'failed' never
\* changes its status again.
C2_TerminalIsFinal ==
  [][\A j \in DOMAIN training_jobs :
       StatusOf(training_jobs, j) \in Terminal
         => StatusOf(training_jobs', j) = StatusOf(training_jobs, j)]_vars

\* C2 amended: a status changes only by an accepted train request (to
\* 'training') or by a background task (to 'completed' or 'failed'), a
\* record in 'training' leaves it only to 'completed' or 'failed', and a
\* record that has reached 'completed' or 'failed' changes its status only
\* when more than one accepted train request was given its job_id.
C2_TerminalFinalUnlessShared ==
  [][\A j \in DOMAIN training_jobs :
       LET before == StatusOf(training_jobs, j)
           after == StatusOf(training_jobs', j)
       IN /\ j \in DOMAIN training_jobs'
          /\ (before = "training" /\ after # before)
               => /\ after \in Terminal
                  /\ \E i \in TasksOf(background_tasks, j) :
                       /\ background_tasks[i].state = "scheduled"
                       /\ Finished(background_tasks'[i])
          /\ (before \in Terminal /\ after # before)
               => /\ Cardinality(TasksOf(background_tasks', j)) >= 2
                  /\ after = "training" <=> Called("train_ml_model")]_vars

\* A completed record was put back to 'training' by a second request that
\* read the clock in the same second.
C2_Witness ==
  \E j \in DOMAIN training_jobs :
    /\ StatusOf(training_jobs, j) = "training"
    /\ j \in DOMAIN models_cache
    /\ Cardinality(TasksOf(background_tasks, j)) = 2

\* ------------------------------------------------------------------ C3
\* Two accepted train requests get the same job_id exactly when their
\* handlers read the clock in the same second.
C3_SameKeyIffSameSecond ==
  \A a, b \in 1..Len(background_tasks) :
    (background_tasks[a].job_id = background_tasks[b].job_id)
      <=> (IntTime(background_tasks[a].read_at)
             = IntTime(background_tasks[b].read_at))

\* The pairs of accepted requests that share a job_id and whose background
\* tasks have both finished.
C3_FinishedPairs ==
  {p \in (1..Len(background_tasks)) \X (1..Len(background_tasks)) :
     /\ p[1] < p[2]
     /\ background_tasks[p[1]].job_id = background_tasks[p[2]].job_id
     /\ Finished(background_tasks[p[1]])
     /\ Finished(background_tasks[p[2]])}

C3_Models(p) ==
  {background_tasks[p[1]].job_id, background_tasks[p[2]].job_id}
    \cap DOMAIN models_cache
C3_Records(p) ==
  {background_tasks[p[1]].job_id, background_tasks[p[2]].job_id}
    \cap DOMAIN training_jobs

\* An accepted train request writes a fresh 'training' record under its
\* job_id, replacing the record an earlier request left there.
C3_Overwrites ==
  (Called("train_ml_model") /\ last'.response.status_code = 200)
    => LET j == last'.response.body.job_id
       IN /\ j = TrainingKey(clock)
          /\ training_jobs'[j] =
               [status |-> "training", start_time |-> IsoFormat(clock)]
          /\ DOMAIN training_jobs' = DOMAIN training_jobs \cup {j}
          /\ \A k \in DOMAIN training_jobs \ {j} :
               training_jobs'[k] = training_jobs[k]

\* C3 as stated: job_ids differ iff the clock seconds differ, and after both
\* background tasks of two same-second requests have finished exactly one
\* job record and exactly one cached model exist for the two requests.
C3_OneRecordOneModel ==
  /\ C3_SameKeyIffSameSecond
  /\ \A p \in C3_FinishedPairs :
       Cardinality(C3_Records(p)) = 1 /\ Cardinality(C3_Models(p)) = 1

\* C3 amended: job_ids differ iff the clock seconds differ; the later of two
\* same-second requests overwrites the record of the earlier; and after
\* both background tasks have finished exactly one job record exists for the
\* two requests, and one cached model if a training under that job_id
\* returned, none if every training under it raised.
C3_OneRecordAtMostOneModel ==
  /\ [](/\ C3_SameKeyIffSameSecond
        /\ \A p \in C3_FinishedPairs :
             /\ Cardinality(C3_Records(p)) = 1
             /\ Cardinality(C3_Models(p)) =
                  (IF \E i \in TasksOf(background_tasks,
                                       background_tasks[p[1]].job_id) :
                        background_tasks[i].state = "returned"
                     THEN 1 ELSE 0))
  /\ [][C3_Overwrites]_vars

\* Two requests read the clock at different ticks of one second, share the
\* job_id, and both background tasks have finished, one of them returning.
C3_Witness ==
  \E p \in C3_FinishedPairs :
    /\ background_tasks[p[1]].read_at # background_tasks[p[2]].read_at
    /\ background_tasks[p[1]].state = "returned"
    /\ background_tasks[p[2]].state = "raised"
    /\ Cardinality(C3_Models(p)) = 1

\* ------------------------------------------------------------------ C4
InTraining(j) ==
  j \in DOMAIN training_jobs /\ StatusOf(training_jobs, j) = "training"
IsTerminal(j) ==
  j \in DOMAIN training_jobs /\ StatusOf(training_jobs, j) \in Terminal

\* C4: when every scheduled background task is eventually run and
\* train_model returns or raises, every record in 'training' eventually
\* has status 'completed' or 'failed'.
C4_LeavesTraining ==
  \A j \in JobIds : [](InTraining(j) => <>IsTerminal(j))

\* train_model raised and the record of its job says 'failed'.
C4_Witness ==
  \E i \in 1..Len(background_tasks) :
    /\ background_tasks[i].state = "raised"
    /\ StatusOf(training_jobs, background_tasks[i].job_id) = "failed"

\* ------------------------------------------------------------------ C5
\* C5: no step removes a key of analysis_results, training_jobs or
\* models_cache.
C5_NoEviction ==
  [][/\ DOMAIN analysis_results \subseteq DOMAIN analysis_results'
     /\ DOMAIN training_jobs \subseteq DOMAIN training_jobs'
     /\ DOMAIN models_cache \subseteq DOMAIN models_cache']_vars

\* All three mappings hold an entry, and under one job_id a model is cached
\* while a later training under it has failed.
C5_Witness ==
  /\ DOMAIN analysis_results # {}
  /\ \E j \in DOMAIN models_cache :
       /\ StatusOf(training_jobs, j) = "failed"
       /\ Cardinality(TasksOf(background_tasks, j)) = 2

\* ------------------------------------------------------------------ C6
\* The response a handler gives in the current state is the response it
\* gives to the same request, at the same clock reading, when the three
\* mappings are empty (as they are before any other request).
C6_TrainIndependent ==
  \A request \in MLTrainingRequest, prep \in PrepOutcomes :
    TrainBody(request, clock, prep, training_jobs, background_tasks).out
      = TrainBody(request, clock, prep, EmptyDict, << >>).out
C6_AnalyzeIndependent ==
  \A request \in CodeAnalysisRequest :
    AnalyzeBody(request, clock, analysis_results).out
      = AnalyzeBody(request, clock, EmptyDict).out
C6_QuickAnalysisIndependent ==
  \A data \in WsMessages :
    Get(data, "type", "None") # "training_status"
      => WsReply(data, training_jobs) = WsReply(data, EmptyDict)
C6_StatusIndependent ==
  \A job_id \in JobIds :
    StatusBody(job_id, training_jobs) = StatusBody(job_id, EmptyDict)
C6_HealthIndependent ==
  HealthBody(clock, models_cache) = HealthBody(clock, EmptyDict)
C6_WsStatusIndependent ==
  \A data \in WsMessages :
    Get(data, "type", "None") = "training_status"
      => WsReply(data, training_jobs) = WsReply(data, EmptyDict)

\* C6 as stated: the response of every handler is determined by its own
\* request alone, whatever requests were handled before.
C6_NoDataFlow ==
  /\ C6_TrainIndependent
  /\ C6_AnalyzeIndependent
  /\ C6_QuickAnalysisIndependent
  /\ C6_StatusIndependent
  /\ C6_HealthIndependent
  /\ C6_WsStatusIndependent

\* C6 amended: the responses of code analysis, training and the WebSocket
\* quick analysis are determined by their own request (and the clock)
\* alone; text analysis, data processing and inference read no shared
\* state at all.  Training status, health and the WebSocket training
\* status answer from training_jobs and models_cache, which earlier train
\* requests and their background tasks have written.
C6_NoDataFlowExceptJobState ==
  /\ C6_TrainIndependent
  /\ C6_AnalyzeIndependent
  /\ C6_QuickAnalysisIndependent
  /\ (training_jobs # EmptyDict) => ~C6_StatusIndependent
  /\ (training_jobs # EmptyDict) => ~C6_WsStatusIndependent
  /\ (models_cache # EmptyDict) => ~C6_HealthIndependent

\* An analysis was just answered while all three mappings hold entries of
\* earlier requests.
C6_Witness ==
  /\ last.handler = "analyze_code"
  /\ last.response.status_code = 200
  /\ training_jobs # EmptyDict
  /\ models_cache # EmptyDict
  /\ \E k \in DOMAIN analysis_results :
       analysis_results[k].analysis # last.response.body.analysis

\* ------------------------------------------------------------------ C7
\* C7: a status request is answered 404 'Training job not found' exactly
\* when its job_id is no key of training_jobs, otherwise with the record
\* stored under the job_id; it changes none of the three mappings.
C7_StatusLookup ==
  [][Called("get_training_status")
       => LET j == last'.request.job_id
              r == last'.response
          IN /\ (j \notin DOMAIN training_jobs) <=> (r.status_code = 404)
             /\ (j \notin DOMAIN training_jobs)
                  => r = [status_code |-> 404,
                          detail |-> Text("Training job not found")]
             /\ (j \in DOMAIN training_jobs)
                  => r = [status_code |-> 200, body |-> training_jobs[j]]
             /\ UNCHANGED stores]_vars

\* The status of a job that has completed was just read.
C7_Witness ==
  /\ last.handler = "get_training_status"
  /\ last.response.status_code = 200
  /\ last.response.body.status = "completed"
  /\ last.request.job_id \in DOMAIN models_cache

\* ------------------------------------------------------------------ C8
\* C8: a code analysis request for python whose code parses, or has a syntax
\* error, writes exactly one entry of analysis_results, under the
\* analysis_id it returns, and leaves training_jobs and models_cache alone;
\* a WebSocket quick_analysis message writes to none of the three mappings.
C8_AnalyzeWritesOneEntry ==
  [][/\ (/\ Called("analyze_code")
         /\ Lower(last'.request.language) = "python"
         /\ last'.request.code.parse \in {"ok", "SyntaxError"})
          => LET r == last'.response
             IN /\ r.status_code = 200
                /\ r.body.analysis_id = AnalysisKey(clock)
                /\ r.body.analysis.valid = (last'.request.code.parse = "ok")
                /\ ~r.body.analysis.valid
                     => r.body.analysis.error = "Syntax Error"
                /\ DOMAIN analysis_results'
                     = DOMAIN analysis_results \cup {r.body.analysis_id}
                /\ analysis_results'[r.body.analysis_id].analysis
                     = r.body.analysis
                /\ \A k \in DOMAIN analysis_results \ {r.body.analysis_id} :
                     analysis_results'[k] = analysis_results[k]
                /\ UNCHANGED <<training_jobs, models_cache>>
     /\ (/\ Called("ml_websocket")
         /\ Get(last'.request, "type", "None") = "quick_analysis")
          => UNCHANGED stores]_vars

\* A quick analysis was just answered on the socket while analysis_results
\* holds the entry of an earlier request whose code had a syntax error.
C8_Witness ==
  /\ last.handler = "ml_websocket"
  /\ Get(last.request, "type", "None") = "quick_analysis"
  /\ Len(last.response.sent) = 1
  /\ last.response.sent[1].type = "analysis_result"
  /\ \E k \in DOMAIN analysis_results :
       ~analysis_results[k].analysis.valid

\* ------------------------------------------------------------------ C9
Completed(j) ==
  j \in DOMAIN training_jobs /\ StatusOf(training_jobs, j) = "completed"
ActiveModels == HealthBody(clock, models_cache).value.active_models

\* C9 as stated: a job_id is a key of models_cache iff its record has status
\* 'completed', so active_models is the number of completed records.
C9_CachedIffCompleted ==
  /\ \A j \in JobIds : (j \in DOMAIN models_cache) <=> Completed(j)
  /\ ActiveModels = Cardinality({j \in JobIds : Completed(j)})

\* C9 amended: a completed record always has a model cached under its
\* job_id, and models_cache holds exactly the job_ids under which some
\* training returned; a cached job_id whose record is not 'completed'
\* occurs only when several train requests shared the job_id, so
\* active_models is at least the number of completed records.
C9_CompletedImpliesCached ==
  /\ \A j \in JobIds :
       /\ Completed(j) => j \in DOMAIN models_cache
       /\ (j \in DOMAIN models_cache)
            <=> \E i \in TasksOf(background_tasks, j) :
                  background_tasks[i].state = "returned"
       /\ (j \in DOMAIN models_cache /\ ~Completed(j))
            => Cardinality(TasksOf(background_tasks, j)) >= 2
  /\ ActiveModels >= Cardinality({j \in JobIds : Completed(j)})

\* A model is cached under a job_id whose record says 'failed': health
\* reports one active model and no record is completed.
C9_Witness ==
  /\ ActiveModels = 1
  /\ \E j \in DOMAIN models_cache : StatusOf(training_jobs, j) = "failed"
  /\ {j \in JobIds : Completed(j)} = {}

\* ----------------------------------------------------------------- C10
\* C10: a train request answered with an error changes neither
\* training_jobs nor models_cache and schedules no background task; a
\* request answered 'training_started' has written a 'training' record
\* under the job_id it returns and scheduled exactly one task for it.
C10_ErrorLeavesNoTrace ==
  [][Called("train_ml_model")
       => LET r == last'.response
              n == Len(background_tasks)
          IN /\ (last'.request.data = <<>>
                   \/ last'.request.target_column
                        \notin Columns(last'.request.data))
                  => r.status_code # 200
             /\ r.status_code # 200
                  => UNCHANGED <<training_jobs, models_cache,
                                 background_tasks>>
             /\ r.status_code = 200
                  => /\ r.body.status = "training_started"
                     /\ r.body.job_id \in DOMAIN training_jobs'
                     /\ StatusOf(training_jobs', r.body.job_id) = "training"
                     /\ Len(background_tasks') = n + 1
                     /\ SubSeq(background_tasks', 1, n) = background_tasks
                     /\ background_tasks'[n + 1].job_id = r.body.job_id
                     /\ background_tasks'[n + 1].state = "scheduled"
                     /\ UNCHANGED models_cache]_vars

\* A train request was just answered with an error while a job of an
\* earlier request is recorded and its task still scheduled.
C10_Witness ==
  /\ last.handler = "train_ml_model"
  /\ last.response.status_code # 200
  /\ last.request.data # <<>>
  /\ \E i \in 1..Len(background_tasks) :
       background_tasks[i].state = "scheduled"

\* ------------------------------------------------------------- C11
\* The turn of the socket loop answers a message when it is a
\* 'training_status' for a key of training_jobs or a 'quick_analysis' with
\* non-empty code.
C11_Answerable(data, jobs) ==
  \/ /\ Get(data, "type", "None") = "training_status"
     /\ Get(data, "job_id", <<"None">>) \in DOMAIN jobs
  \/ /\ Get(data, "type", "None") = "quick_analysis"
     /\ Get(data, "code", CodeEmpty).length > 0

\* C11: every JSON object received on /ws/ml produces at most one sent
\* message; one is sent exactly when the object is a 'training_status' for
\* a key of training_jobs (the reply carries the current record) or a
\* 'quick_analysis' with non-empty code (the reply is 'analysis_result' or
\* 'error'); every other object gets no reply and leaves the connection
\* open for the next message.
C11_ReplyOrStayOpen ==
  [][Called("ml_websocket") /\ IsObject(last'.request)
       => LET data == last'.request
              sent == last'.response.sent
              answerable == C11_Answerable(data, training_jobs)
          IN /\ Len(sent) <= 1
             /\ Len(sent) = 1 <=> answerable
             /\ (answerable /\ data.type = "training_status")
                  => /\ sent[1].type = "training_status"
                     /\ sent[1].status = training_jobs[data.job_id]
             /\ (answerable /\ data.type = "quick_analysis")
                  => sent[1].type \in {"analysis_result", "error"}
             /\ ~answerable => ws_state' = "open"]_vars

\* ------------------------------------------------------------- C12
\* The problem the trainer settles on for a label column and a requested
\* model_type: with 'auto', classification when the first label is a
\* string or fewer than 10 labels are distinct, regression otherwise.
C12_Problem(y, model_type) ==
  IF model_type # "auto" THEN model_type
  ELSE IF IsStr(y[1]) \/ Cardinality(Range(y)) < 10 THEN "classification"
  ELSE "regression"

C12_Regressors == {"RandomForestRegressor", "LinearRegression"}
C12_FourEstimators ==
  {"LogisticRegression", "RandomForestClassifier"} \cup C12_Regressors
C12_Picked(input) ==
  train_model(input.X, input.y, input.model_type).model
C12_PickedFor == {C12_Picked(input) : input \in TrainerInputs}

\* The estimator a finished train_model call has chosen follows the rule:
\* logistic regression for classification with exactly 2 distinct labels,
\* the random-forest classifier for other classification, and one of
\* `regressors` for every other problem.
C12_Rule(regressors) ==
  last.handler = "train_model"
    => LET y == last.request.y
           problem == C12_Problem(y, last.request.model_type)
           model == last.response.model
       IN /\ last.response.model_type = problem
          /\ problem = "classification" /\ Cardinality(Range(y)) = 2
               => model = "LogisticRegression"
          /\ problem = "classification" /\ Cardinality(Range(y)) # 2
               => model = "RandomForestClassifier"
          /\ problem # "classification" => model \in regressors

\* C12: the trainer picks one of four estimators (LogisticRegression,
\* RandomForestClassifier, RandomForestRegressor, LinearRegression) by the
\* rule above, every other model_type using a regressor, and each of the
\* four is picked for at least one input.
C12_PicksEachOfFour ==
  /\ C12_Rule(C12_Regressors)
  /\ C12_PickedFor = C12_FourEstimators

\* C12, amended: the trainer picks one of three estimators by the same
\* rule, every problem other than classification using
\* RandomForestRegressor; each of the three is picked for at least one
\* input and LinearRegression, though imported, for none.
C12_PicksEachOfThree ==
  /\ C12_Rule({"RandomForestRegressor"})
  /\ C12_PickedFor = C12_FourEstimators \ {"LinearRegression"}

\* A call with 'auto' on ten distinct numeric labels has returned: the
\* detected problem is regression.
C12_Witness ==
  /\ last.handler = "train_model"
  /\ last.request.model_type = "auto"
  /\ ~IsStr(last.request.y[1])
  /\ Cardinality(Range(last.request.y)) = 10
  /\ last.response.model_type = "regression"
  /\ last.response.model = "RandomForestRegressor"

\* ------------------------------------------------------------- C13
\* An analysis of code that parsed has been returned.
C13_Parsed ==
  /\ last.handler = "analyze_python_code"
  /\ ~last.response.raised
  /\ last.response.value.valid

\* 100, minus 2 per complexity point above 10, minus 10 per security
\* issue, plus 10 times the documented fraction, as a fraction over `den`.
C13_Unclamped(analysis, den) ==
  LET n == Len(analysis.functions)
      documented == Cardinality({i \in 1..n : analysis.functions[i]})
      above == Max(0, analysis.complexity - 10)
  IN (100 - 2 * above - 10 * Cardinality(analysis.security_issues)) * den
       + (IF n > 0 THEN 10 * documented ELSE 0)

\* C13: for every successfully parsed code input the code_quality_score
\* lies in 0..100 and equals 100 minus 2 per complexity point above 10,
\* minus 10 per detected security issue, plus 10 times the fraction of
\* functions with a docstring, clamped to [0, 100]; a program with
\* complexity at most 10 and no security issue scores exactly 100 whether
\* or not its functions are documented.
C13_ScoreFormula ==
  C13_Parsed
    => LET analysis == last.response.value
           num == analysis.code_quality_score[1]
           den == analysis.code_quality_score[2]
       IN /\ den = Max(1, Len(analysis.functions))
          /\ 0 <= num /\ num <= 100 * den
          /\ num = Max(0, Min(100 * den, C13_Unclamped(analysis, den)))
          /\ (analysis.complexity <= 10 /\ analysis.security_issues = {})
               => num = 100 * den

\* A returned analysis with complexity above 10, a security issue and one
\* of two functions documented, scoring strictly between 0 and 100.
C13_Witness ==
  /\ C13_Parsed
  /\ last.response.value.complexity > 10
  /\ last.response.value.security_issues # {}
  /\ last.response.value.functions = <<TRUE, FALSE>>
  /\ 0 < last.response.value.code_quality_score[1]
  /\ last.response.value.code_quality_score[1] < 200


====
